---- MODULE Spec2Model ----
(***************************************************************************)
(* ClickUp dashboard (src/app.py): the task classification and            *)
(* aggregation engine of one script run.                                  *)
(*                                                                         *)
(* One run of the Streamlit script is modelled as a sequence of steps:    *)
(* the sidebar picks the reporting period, the data of the tracked list   *)
(* is loaded and categorized / indexed / filtered, and the four tabs of   *)
(* the list are rendered in order.  An exception raised by a step ends    *)
(* the run (pc = "error").                                                 *)
(*                                                                         *)
(* JSON values are tagged records of one shape, [t, d, m, s]:              *)
(*   t = "absent" (key missing), "null", "int", "float", "inf", "nan",    *)
(*       "str", "list", "dict"                                            *)
(*   an "int" is d * MsPerDay + m with 0 <= m < MsPerDay (millisecond     *)
(*   timestamps exceed the 32-bit integers of TLC; small integers have    *)
(*   d = 0); a "float" is m / 10; a "str" is the sequence s of its        *)
(*   characters.                                                           *)
(* Local time is taken to be UTC and datetimes have millisecond            *)
(* resolution: datetime [day, ms] has timestamp day * MsPerDay + ms.      *)
(***************************************************************************)
EXTENDS Integers, Sequences, FiniteSets, TLC

VARIABLES pc, start_date, end_date, tasks, categories, assignees,
          completed_in_period, completion_rate, cards,
          members_with_completion, member_analytics, priority_count,
          workload_data, exception

vars == <<pc, start_date, end_date, tasks, categories, assignees,
          completed_in_period, completion_rate, cards,
          members_with_completion, member_analytics, priority_count,
          workload_data, exception>>

----------------------------------------------------------------------------
(* Python values                                                           *)

MsPerDay == 24 * 60 * 60 * 1000

Val(t, d, m, s) == [t |-> t, d |-> d, m |-> m, s |-> s]
Absent == Val("absent", 0, 0, <<>>)
Null == Val("null", 0, 0, <<>>)
Int32(n) == Val("int", 0, n, <<>>)
Big(d, m) == Val("int", d, m, <<>>)
Float10(tenths) == Val("float", 0, tenths, <<>>)
Inf == Val("inf", 0, 0, <<>>)
NaN == Val("nan", 0, 0, <<>>)
Str(s) == Val("str", 0, 0, s)
NonEmptyList == Val("list", 0, 0, <<>>)
NonEmptyDict == Val("dict", 0, 0, <<>>)

\* dict.get(key): a missing key and a null value both read as None
IsNone(v) == v.t \in {"absent", "null"}

\* Python truth value of v
Truthy(v) ==
    CASE v.t \in {"absent", "null"} -> FALSE
      [] v.t = "int" -> ~(v.d = 0 /\ v.m = 0)
      [] v.t = "float" -> v.m # 0
      [] v.t = "str" -> Len(v.s) > 0
      [] OTHER -> TRUE

\* d * MsPerDay + m brought to 0 <= m < MsPerDay
Norm(d, m) == [d |-> d + (m \div MsPerDay), m |-> m % MsPerDay]
Leq(a, b) == a.d < b.d \/ (a.d = b.d /\ a.m <= b.m)
Neg(a) == IF a.m = 0 THEN [d |-> 0 - a.d, m |-> 0]
          ELSE [d |-> 0 - a.d - 1, m |-> MsPerDay - a.m]

----------------------------------------------------------------------------
(* Strings                                                                 *)

UpperChars == <<"A","B","C","D","E","F","G","H","I","J","K","L","M",
                "N","O","P","Q","R","S","T","U","V","W","X","Y","Z">>
LowerChars == <<"a","b","c","d","e","f","g","h","i","j","k","l","m",
                "n","o","p","q","r","s","t","u","v","w","x","y","z">>
DigitChars == <<"0","1","2","3","4","5","6","7","8","9">>

LowerChar(c) ==
    IF \E i \in DOMAIN UpperChars : UpperChars[i] = c
    THEN LowerChars[CHOOSE i \in DOMAIN UpperChars : UpperChars[i] = c]
    ELSE c

\* str.lower()
Lower(s) == [i \in DOMAIN s |-> LowerChar(s[i])]

\* sub in s
Contains(sub, s) ==
    \E i \in 0..(Len(s) - Len(sub)) : SubSeq(s, i + 1, i + Len(sub)) = sub

IsDigit(c) == \E i \in DOMAIN DigitChars : DigitChars[i] = c
DigitVal(c) == (CHOOSE i \in DOMAIN DigitChars : DigitChars[i] = c) - 1

RECURSIVE StripLeft(_)
StripLeft(s) == IF s # <<>> /\ Head(s) = " " THEN StripLeft(Tail(s)) ELSE s
RECURSIVE StripRight(_)
StripRight(s) ==
    IF s # <<>> /\ s[Len(s)] = " " THEN StripRight(SubSeq(s, 1, Len(s) - 1)) ELSE s
Strip(s) == StripRight(StripLeft(s))

RECURSIVE ParseDigits(_, _)
ParseDigits(s, acc) ==
    IF s = <<>> THEN acc
    ELSE ParseDigits(Tail(s), Norm(acc.d * 10, acc.m * 10 + DigitVal(Head(s))))

\* int(v): [exc, d, m]; exc is "" when the coercion succeeds.  A string is
\* stripped, may carry one sign and must then be decimal digits only.
IntOk(n) == [exc |-> "", d |-> n.d, m |-> n.m]
IntFail(e) == [exc |-> e, d |-> 0, m |-> 0]
IntOfStr(s) ==
    LET body == Strip(s)
        signed == body # <<>> /\ Head(body) \in {"+", "-"}
        digits == IF signed THEN Tail(body) ELSE body
    IN  IF digits = <<>> \/ \E i \in DOMAIN digits : ~IsDigit(digits[i])
        THEN IntFail("ValueError")
        ELSE LET n == ParseDigits(digits, [d |-> 0, m |-> 0])
             IN  IntOk(IF signed /\ Head(body) = "-" THEN Neg(n) ELSE n)
\* int() of a float truncates towards zero
IntOfFloat(tenths) ==
    IF tenths >= 0 THEN Norm(0, tenths \div 10) ELSE Neg(Norm(0, (0 - tenths) \div 10))
PyInt(v) ==
    CASE v.t = "int" -> IntOk([d |-> v.d, m |-> v.m])
      [] v.t = "float" -> IntOk(IntOfFloat(v.m))
      [] v.t = "inf" -> IntFail("OverflowError")
      [] v.t = "nan" -> IntFail("ValueError")
      [] v.t = "str" -> IntOfStr(v.s)
      [] OTHER -> IntFail("TypeError")

----------------------------------------------------------------------------
(* Results of a call: exc is "" on return, else the exception raised       *)

Ok(v) == [exc |-> "", val |-> v]
Raise(e, v) == [exc |-> e, val |-> v]

\* the first exception a loop over 1..n runs into ("" if there is none)
FirstExc(n, excAt(_)) ==
    IF \E i \in 1..n : excAt(i) # ""
    THEN excAt(CHOOSE i \in 1..n : excAt(i) # "" /\ \A j \in 1..(i - 1) : excAt(j) = "")
    ELSE ""

----------------------------------------------------------------------------
(* filter_tasks_by_date                                                    *)

\* int(dt.timestamp() * 1000)
TimestampMs(dt) == Norm(dt.day, dt.ms)
start_timestamp(start) == TimestampMs(start)
end_timestamp(end) ==
    LET t == TimestampMs(end) IN Norm(t.d, t.m + (MsPerDay - 1))

InRange(lo, n, hi) == Leq(lo, n) /\ Leq(n, hi)

\* the date field the loop body consults: date_closed if truthy, else date_done
ConsultedDate(task) ==
    IF Truthy(task.date_closed) THEN task.date_closed
    ELSE IF Truthy(task.date_done) THEN task.date_done
    ELSE Null

\* FilterStep consulting date_done as well when date_closed is out of range
FilterStep_either(task, lo, hi) ==
    LET inRange(field) ==
            LET n == PyInt(field) IN
            Truthy(field) /\ n.exc = "" /\ InRange(lo, [d |-> n.d, m |-> n.m], hi)
    IN  Ok(inRange(task.date_closed) \/ inRange(task.date_done))

\* one iteration of the loop: [exc, val]; val says whether the task is appended
FilterStep(task, lo, hi) ==
    LET field == ConsultedDate(task) IN
    IF IsNone(field) THEN Ok(FALSE)
    ELSE LET n == PyInt(field) IN
         IF n.exc # "" THEN Raise(n.exc, FALSE)
         ELSE Ok(InRange(lo, [d |-> n.d, m |-> n.m], hi))

filter_tasks_by_date(ts, start, end) ==
    LET lo == start_timestamp(start)
        hi == end_timestamp(end)
        excAt(i) == FilterStep(ts[i], lo, hi).exc
        e == FirstExc(Len(ts), excAt)
        keep(task) == FilterStep(task, lo, hi).val
    IN  IF e # "" THEN Raise(e, <<>>) ELSE Ok(SelectSeq(ts, keep))

----------------------------------------------------------------------------
(* categorize_tasks                                                        *)

\* status_obj.get(key, "").lower(); status_obj is {} when the task has no status
StatusField(status, key) ==
    IF status.t = "absent" THEN Ok(<<>>)
    ELSE IF status.t # "dict" THEN Raise("AttributeError", <<>>)
    ELSE LET v == IF key = "status" THEN status.name ELSE status.type IN
         IF v.t = "absent" THEN Ok(<<>>)
         ELSE IF v.t = "str" THEN Ok(Lower(v.s))
         ELSE Raise("AttributeError", <<>>)

s_progress == <<"p","r","o","g","r","e","s","s">>
s_active == <<"a","c","t","i","v","e">>
s_done == <<"d","o","n","e">>
s_closed == <<"c","l","o","s","e","d">>
s_open == <<"o","p","e","n">>
s_to_do == <<"t","o"," ","d","o">>

\* CategoryOf with the status rules tried before date_closed
CategoryOf_status_first(task, status_name, status_type) ==
    IF status_type = s_done \/ status_type = s_closed THEN "completed"
    ELSE IF \/ Contains(s_progress, status_name)
            \/ Contains(s_active, status_name)
            \/ status_type = s_active THEN "in_progress"
    ELSE IF Truthy(task.date_closed) THEN "closed"
    ELSE "to_do"

\* the if / elif chain of the loop body
CategoryOf(task, status_name, status_type) ==
    IF Truthy(task.date_closed) THEN "closed"
    ELSE IF status_type = s_done \/ status_type = s_closed THEN "completed"
    ELSE IF \/ Contains(s_progress, status_name)
            \/ Contains(s_active, status_name)
            \/ status_type = s_active THEN "in_progress"
    ELSE IF \/ Contains(s_open, status_type)
            \/ Contains(s_to_do, status_name)
            \/ status_name = s_to_do THEN "to_do"
    ELSE "to_do"

\* one iteration of the loop: [exc, val]; val is the bucket the task is appended to
CategorizeStep(task) ==
    LET name == StatusField(task.status, "status")
        type == StatusField(task.status, "type")
    IN  IF name.exc # "" THEN Raise(name.exc, "")
        ELSE IF type.exc # "" THEN Raise(type.exc, "")
        ELSE Ok(CategoryOf(task, name.val, type.val))

CategoryNames == {"to_do", "in_progress", "completed", "closed"}
EmptyCategories == [c \in CategoryNames |-> <<>>]

\* categorize_tasks without its final else: a task no rule matches is dropped
categorize_tasks_no_else(ts) ==
    LET matched(task) ==
            LET name == StatusField(task.status, "status").val
                type == StatusField(task.status, "type").val
            IN  \/ CategorizeStep(task).val # "to_do"
                \/ Contains(s_open, type) \/ Contains(s_to_do, name)
    IN  Ok([c \in CategoryNames |->
              LET keep(task) == CategorizeStep(task).val = c /\ matched(task)
              IN  SelectSeq(ts, keep)])

categorize_tasks(ts) ==
    LET excAt(i) == CategorizeStep(ts[i]).exc
        e == FirstExc(Len(ts), excAt)
    IN  IF e # "" THEN Raise(e, EmptyCategories)
        ELSE Ok([c \in CategoryNames |->
                  LET keep(task) == CategorizeStep(task).val = c
                  IN  SelectSeq(ts, keep)])

----------------------------------------------------------------------------
(* get_task_assignees                                                      *)
(* assignees_dict is a dict in insertion order: a sequence of entries      *)
(* [user_id, name, email, color, tasks], one per key.                      *)

s_Unknown == <<"U","n","k","n","o","w","n">>
s_NA == <<"N","/","A">>
s_color == <<"#","7","B","6","8","E","E">>

\* d.get(key, default): the default stands in only for a missing key
GetOr(v, default) == IF v.t = "absent" THEN Str(default) ELSE v

HasKey(dict, user_id) == \E k \in DOMAIN dict : dict[k].user_id = user_id
KeyIndex(dict, user_id) == CHOOSE k \in DOMAIN dict : dict[k].user_id = user_id

\* AddAssignee appending the task only to an entry it has just created
AddAssignee_new_only(dict, task, assignee) ==
    LET user_id == assignee.id IN
    IF Truthy(user_id) /\ ~HasKey(dict, user_id)
    THEN Append(dict, [user_id |-> user_id,
                       name |-> GetOr(assignee.username, s_Unknown),
                       email |-> GetOr(assignee.email, s_NA),
                       color |-> GetOr(assignee.color, s_color),
                       tasks |-> <<task>>])
    ELSE dict

\* the body of the inner loop for one assignee of one task
AddAssignee(dict, task, assignee) ==
    LET user_id == assignee.id
        created ==
            IF Truthy(user_id) /\ ~HasKey(dict, user_id)
            THEN Append(dict, [user_id |-> user_id,
                               name |-> GetOr(assignee.username, s_Unknown),
                               email |-> GetOr(assignee.email, s_NA),
                               color |-> GetOr(assignee.color, s_color),
                               tasks |-> <<>>])
            ELSE dict
    IN  IF Truthy(user_id)
        THEN [created EXCEPT ![KeyIndex(created, user_id)].tasks = Append(@, task)]
        ELSE created

RECURSIVE AddAssignees(_, _, _)
AddAssignees(dict, task, people) ==
    IF people = <<>> THEN dict
    ELSE AddAssignees(AddAssignee(dict, task, Head(people)), task, Tail(people))

\* task.get("assignees", [])
AssigneeList(task) == IF task.assignees.t = "list" THEN task.assignees.l ELSE <<>>

RECURSIVE IndexTasks(_, _)
IndexTasks(dict, ts) ==
    IF ts = <<>> THEN dict
    ELSE IndexTasks(AddAssignees(dict, Head(ts), AssigneeList(Head(ts))), Tail(ts))

\* iterating None, or hashing a list / dict used as a key, raises TypeError
AssigneesExc(task) ==
    IF task.assignees.t = "null" THEN "TypeError"
    ELSE IF \E k \in DOMAIN AssigneeList(task) :
                AssigneeList(task)[k].id.t \in {"list", "dict"} THEN "TypeError"
    ELSE ""

get_task_assignees(ts) ==
    LET excAt(i) == AssigneesExc(ts[i])
        e == FirstExc(Len(ts), excAt)
    IN  IF e # "" THEN Raise(e, <<>>) ELSE Ok(IndexTasks(<<>>, ts))

----------------------------------------------------------------------------
(* get_priority_display                                                    *)
(* A raw priority is [v, p, i]: the value v, and when v is a dict its      *)
(* 'priority' and 'id' fields p and i.                                     *)

Raw(v) == [v |-> v, p |-> Absent, i |-> Absent]
RawDict(p, i) == [v |-> NonEmptyDict, p |-> p, i |-> i]

\* a or b
PyOr(a, b) == IF Truthy(a) THEN a ELSE b

\* priority.get('priority') or priority.get('id')
Unwrap(priority) ==
    IF priority.v.t = "dict" THEN PyOr(priority.p, priority.i) ELSE priority.v

\* priority_map.get(priority_num, "None")
PriorityMapGet(n) ==
    IF n.d = 0 /\ n.m = 1 THEN "Urgent"
    ELSE IF n.d = 0 /\ n.m = 2 THEN "High"
    ELSE IF n.d = 0 /\ n.m = 3 THEN "Normal"
    ELSE IF n.d = 0 /\ n.m = 4 THEN "Low"
    ELSE "None"

get_priority_display(priority) ==
    IF IsNone(priority.v) THEN Ok("None")
    ELSE LET inner == Unwrap(priority) IN
         IF IsNone(inner) THEN Ok("None")
         ELSE LET n == PyInt(inner) IN
              IF n.exc = "" THEN Ok(PriorityMapGet(n))
              ELSE IF n.exc \in {"ValueError", "TypeError"} THEN Ok("None")
              ELSE Raise(n.exc, "")

\* display_task_card: the priority caption of the card of each task shown
display_task_cards(ts) ==
    LET excAt(i) == get_priority_display(ts[i].priority).exc
        e == FirstExc(Len(ts), excAt)
    IN  IF e # "" THEN Raise(e, <<>>)
        ELSE Ok([i \in DOMAIN ts |->
                   [id |-> ts[i].id,
                    priority_display |-> get_priority_display(ts[i].priority).val]])

----------------------------------------------------------------------------
(* The sidebar: the reporting period                                       *)
(* A datetime is [day, ms]: days since 1970-01-01 and millisecond of the   *)
(* day.  The calendar below is that of the years 2021 to 2023, none of     *)
(* them a leap year.                                                       *)

Year2023 == 53 * 365 + 13
MonthStarts == {0, 31, 59, 90, 120, 151, 181, 212, 243, 273, 304, 334}

DateOptions == {"Last 7 Days", "Last 30 Days", "Last 90 Days",
                "This Month", "Last Month", "Custom Range"}

\* dt - timedelta(days=n)
MinusDays(dt, n) == [day |-> dt.day - n, ms |-> dt.ms]

\* dt.replace(day=1)
ReplaceDay1(dt) ==
    LET rel == dt.day - Year2023
        inYear == rel % 365
        first == CHOOSE f \in MonthStarts :
                    f <= inYear /\ \A g \in MonthStarts : g <= inYear => g <= f
    IN  [day |-> dt.day - (inYear - first), ms |-> dt.ms]

\* datetime.combine(date, datetime.min.time())
Midnight(day) == [day |-> day, ms |-> 0]

\* the if / elif chain on date_filter_option: [start_date, end_date]
SelectDates(option, today, custom_start, custom_end) ==
    CASE option = "Last 7 Days" ->
            [start_date |-> MinusDays(today, 7), end_date |-> today]
      [] option = "Last 30 Days" ->
            [start_date |-> MinusDays(today, 30), end_date |-> today]
      [] option = "Last 90 Days" ->
            [start_date |-> MinusDays(today, 90), end_date |-> today]
      [] option = "This Month" ->
            [start_date |-> ReplaceDay1(today), end_date |-> today]
      [] option = "Last Month" ->
            LET first_day_this_month == ReplaceDay1(today)
                last == MinusDays(first_day_this_month, 1)
            IN  [start_date |-> ReplaceDay1(last), end_date |-> last]
      [] OTHER ->
            [start_date |-> Midnight(custom_start), end_date |-> Midnight(custom_end)]

----------------------------------------------------------------------------
(* Aggregation in the tabs                                                 *)

NoRate == [defined |-> FALSE, num |-> 0, den |-> 1]

\* CompletionRate counting the completed bucket alone
CompletionRate_completed_only(cats, total_tasks) ==
    IF total_tasks > 0
    THEN [defined |-> TRUE, num |-> Len(cats["completed"]), den |-> total_tasks]
    ELSE NoRate

\* completion_rate / 100 as the fraction num / den; it is bound only when
\* the list has tasks
CompletionRate(cats, total_tasks) ==
    IF total_tasks > 0
    THEN [defined |-> TRUE,
          num |-> Len(cats["completed"]) + Len(cats["closed"]),
          den |-> total_tasks]
    ELSE NoRate

\* any(a.get('id') == user_id for a in t.get('assignees', []))
IsAssignedTo(task, user_id) ==
    \E k \in DOMAIN AssigneeList(task) : AssigneeList(task)[k].id = user_id

\* UserCompleted without the test on the assignees
UserCompleted_anyone(completed, user_id) == completed

\* [t for t in completed_in_period if any(...)]
UserCompleted(completed, user_id) ==
    LET keep(task) == IsAssignedTo(task, user_id) IN SelectSeq(completed, keep)

\* InsertByCount placing x before the elements of equal count
InsertByCount_before_ties(sorted, x) ==
    LET k == Cardinality({j \in DOMAIN sorted : sorted[j].count > x.count})
    IN  SubSeq(sorted, 1, k) \o <<x>> \o SubSeq(sorted, k + 1, Len(sorted))

\* list.sort(key=lambda x: x[2], reverse=True): stable, descending
InsertByCount(sorted, x) ==
    LET k == Cardinality({j \in DOMAIN sorted : sorted[j].count >= x.count})
    IN  SubSeq(sorted, 1, k) \o <<x>> \o SubSeq(sorted, k + 1, Len(sorted))
RECURSIVE SortByCountDesc(_, _)
SortByCountDesc(sorted, rest) ==
    IF rest = <<>> THEN sorted
    ELSE SortByCountDesc(InsertByCount(sorted, Head(rest)), Tail(rest))

MembersWithCompletion(index, completed) ==
    SortByCountDesc(<<>>,
        [k \in DOMAIN index |->
            [user_id |-> index[k].user_id,
             name |-> index[k].name,
             count |-> Len(UserCompleted(completed, index[k].user_id))]])

\* display_team_member_analytics: the metrics shown for one member
MemberAnalytics(user_data, tasks_in_period) ==
    LET user_categories == categorize_tasks(user_data.tasks).val
        team == get_task_assignees(user_data.tasks).val
        mine(task) == \E k \in DOMAIN AssigneeList(task) :
                         HasKey(team, AssigneeList(task)[k].id)
        user_completed_in_period == SelectSeq(tasks_in_period, mine)
    IN  [user_id |-> user_data.user_id,
         total |-> Len(user_data.tasks),
         to_do |-> Len(user_categories["to_do"]),
         in_progress |-> Len(user_categories["in_progress"]),
         completed_all |-> Len(user_categories["completed"])
                             + Len(user_categories["closed"]),
         completed_in_period |-> Len(user_completed_in_period)]

\* one row of workload_data
WorkloadRow(entry, completed) ==
    LET user_cats == categorize_tasks(entry.tasks).val IN
    [user_id |-> entry.user_id,
     member |-> entry.name,
     total |-> Len(entry.tasks),
     to_do |-> Len(user_cats["to_do"]),
     in_progress |-> Len(user_cats["in_progress"]),
     completed_overall |-> Len(user_cats["completed"]) + Len(user_cats["closed"]),
     completed_period |-> Len(UserCompleted(completed, entry.user_id))]

WorkloadData(index, completed) ==
    [k \in DOMAIN index |-> WorkloadRow(index[k], completed)]

\* the Priority Distribution lookup {1: .., 2: .., 3: .., 4: .., None: ..}.get(p, "None")
ChartLevel(priority) ==
    LET p == Unwrap(priority) IN
    CASE p.t \in {"list", "dict"} -> Raise("TypeError", "")
      [] p.t = "int" -> Ok(PriorityMapGet([d |-> p.d, m |-> p.m]))
      [] p.t = "float" /\ p.m % 10 = 0 -> Ok(PriorityMapGet(Norm(0, p.m \div 10)))
      [] OTHER -> Ok("None")

\* priority_count[priority_name] += 1, keys in order of first use
CountUp(counts, name) ==
    IF \E k \in DOMAIN counts : counts[k].name = name
    THEN [k \in DOMAIN counts |->
            IF counts[k].name = name
            THEN [name |-> name, count |-> counts[k].count + 1] ELSE counts[k]]
    ELSE Append(counts, [name |-> name, count |-> 1])
RECURSIVE CountPriorities(_, _)
CountPriorities(counts, ts) ==
    IF ts = <<>> THEN counts
    ELSE CountPriorities(CountUp(counts, ChartLevel(Head(ts).priority).val), Tail(ts))

PriorityCount(ts) ==
    LET excAt(i) == ChartLevel(ts[i].priority).exc
        e == FirstExc(Len(ts), excAt)
    IN  IF e # "" THEN Raise(e, <<>>) ELSE Ok(CountPriorities(<<>>, ts))

----------------------------------------------------------------------------
(* The script run                                                          *)

NoDate == [day |-> 0, ms |-> 0]
NoException == [type |-> "", raised_by |-> ""]

Init ==
    /\ pc = "sidebar"
    /\ start_date = NoDate
    /\ end_date = NoDate
    /\ tasks = <<>>
    /\ categories = EmptyCategories
    /\ assignees = <<>>
    /\ completed_in_period = <<>>
    /\ completion_rate = NoRate
    /\ cards = <<>>
    /\ members_with_completion = <<>>
    /\ member_analytics = <<>>
    /\ priority_count = <<>>
    /\ workload_data = <<>>
    /\ exception = NoException

\* an uncaught exception ends the run; the traceback names the function it left
Fail(e, f) == pc' = "error" /\ exception' = [type |-> e, raised_by |-> f]

\* lines 334-364: the quick select and the two date inputs
Sidebar(options, nows, days) ==
    /\ pc = "sidebar"
    /\ \E option \in options, today \in nows, custom_start \in days, custom_end \in days :
         LET sel == SelectDates(option, today, custom_start, custom_end) IN
         /\ start_date' = sel.start_date
         /\ end_date' = sel.end_date
    /\ pc' = "load"
    /\ UNCHANGED <<tasks, categories, assignees, completed_in_period, completion_rate,
                   cards, members_with_completion, member_analytics, priority_count,
                   workload_data, exception>>

\* lines 370-394: get_list_info and get_all_tasks answer (a failed task fetch is
\* the empty collection), then the entry of all_lists_data is built; st.stop()
\* when no list could be fetched
LoadData(collections) ==
    /\ pc = "load"
    /\ \E list_info_ok \in BOOLEAN, fetched \in collections :
         IF ~list_info_ok
         THEN /\ pc' = "stopped"
              /\ UNCHANGED <<tasks, categories, assignees, completed_in_period, exception>>
         ELSE LET cats == categorize_tasks(fetched)
                  index == get_task_assignees(fetched)
                  dated(t) == Truthy(t.date_closed) \/ Truthy(t.date_done)
                  done == filter_tasks_by_date(SelectSeq(fetched, dated),
                                               start_date, end_date)
                  e == IF cats.exc # "" THEN cats.exc
                       ELSE IF index.exc # "" THEN index.exc ELSE done.exc
                  f == IF cats.exc # "" THEN "categorize_tasks"
                       ELSE IF index.exc # "" THEN "get_task_assignees"
                       ELSE "filter_tasks_by_date"
              IN  /\ tasks' = fetched
                  /\ IF e # ""
                     THEN /\ Fail(e, f)
                          /\ UNCHANGED <<categories, assignees, completed_in_period>>
                     ELSE /\ categories' = cats.val
                          /\ assignees' = index.val
                          /\ completed_in_period' = done.val
                          /\ pc' = "tab1"
                          /\ UNCHANGED exception
    /\ UNCHANGED <<start_date, end_date, completion_rate, cards,
                   members_with_completion, member_analytics, priority_count,
                   workload_data>>

\* lines 423-485: overall statistics, the completion rate and the cards of the
\* tasks completed in the period
Tab1 ==
    /\ pc = "tab1"
    /\ completion_rate' = CompletionRate(categories, Len(tasks))
    /\ LET shown == display_task_cards(completed_in_period) IN
       IF shown.exc # ""
       THEN Fail(shown.exc, "get_priority_display") /\ UNCHANGED cards
       ELSE cards' = shown.val /\ pc' = "tab2" /\ UNCHANGED exception
    /\ UNCHANGED <<start_date, end_date, tasks, categories, assignees,
                   completed_in_period, members_with_completion, member_analytics,
                   priority_count, workload_data>>

\* lines 487-523: the cards of every task, bucket by bucket
Tab2 ==
    /\ pc = "tab2"
    /\ LET shown == display_task_cards(categories["to_do"] \o categories["in_progress"]
                                       \o categories["completed"] \o categories["closed"])
       IN  IF shown.exc # ""
           THEN Fail(shown.exc, "get_priority_display") /\ UNCHANGED cards
           ELSE cards' = shown.val /\ pc' = "tab3" /\ UNCHANGED exception
    /\ UNCHANGED <<start_date, end_date, tasks, categories, assignees,
                   completed_in_period, completion_rate, members_with_completion,
                   member_analytics, priority_count, workload_data>>

\* lines 525-546: the members ranked by their completions in the period, and
\* the analytics of each in that order (the cards display_team_member_analytics
\* shows are cards Tab2 has shown)
Tab3 ==
    /\ pc = "tab3"
    /\ members_with_completion' = MembersWithCompletion(assignees, completed_in_period)
    /\ member_analytics' =
          LET ranked == MembersWithCompletion(assignees, completed_in_period) IN
          [k \in DOMAIN ranked |->
              MemberAnalytics(assignees[KeyIndex(assignees, ranked[k].user_id)],
                              UserCompleted(completed_in_period, ranked[k].user_id))]
    /\ pc' = "tab4"
    /\ UNCHANGED <<start_date, end_date, tasks, categories, assignees,
                   completed_in_period, completion_rate, cards, priority_count,
                   workload_data, exception>>

\* lines 548-611: the priority distribution and the workload table
Tab4 ==
    /\ pc = "tab4"
    /\ LET counted == PriorityCount(tasks) IN
       IF counted.exc # ""
       THEN Fail(counted.exc, "priority distribution") /\ UNCHANGED <<priority_count, workload_data>>
       ELSE /\ priority_count' = counted.val
            /\ workload_data' = WorkloadData(assignees, completed_in_period)
            /\ pc' = "done"
            /\ UNCHANGED exception
    /\ UNCHANGED <<start_date, end_date, tasks, categories, assignees,
                   completed_in_period, completion_rate, cards,
                   members_with_completion, member_analytics>>

\* lines 324-326: Refresh Data reruns the script from the top
Rerun ==
    /\ pc \in {"done", "error", "stopped"}
    /\ pc' = "sidebar"
    /\ start_date' = NoDate
    /\ end_date' = NoDate
    /\ tasks' = <<>>
    /\ categories' = EmptyCategories
    /\ assignees' = <<>>
    /\ completed_in_period' = <<>>
    /\ completion_rate' = NoRate
    /\ cards' = <<>>
    /\ members_with_completion' = <<>>
    /\ member_analytics' = <<>>
    /\ priority_count' = <<>>
    /\ workload_data' = <<>>
    /\ exception' = NoException

Render == Tab1 \/ Tab2 \/ Tab3 \/ Tab4 \/ Rerun

----------------------------------------------------------------------------
(* Inputs: what the API answers and what the user selects                  *)

MaxTasks == 2

\* today is 2023-03-15, at midnight or at noon
Today == Year2023 + 59 + 14
Noon == 12 * 60 * 60 * 1000
Nows == {[day |-> Today, ms |-> 0], [day |-> Today, ms |-> Noon]}
CustomDays == {Today - 1, Today}

NoStatus == [t |-> "absent", name |-> Absent, type |-> Absent]
NullStatus == [t |-> "null", name |-> Absent, type |-> Absent]
StatusDict(name, type) == [t |-> "dict", name |-> name, type |-> type]
NoAssignees == [t |-> "absent", l |-> <<>>]
NullAssignees == [t |-> "null", l |-> <<>>]
Assignees(l) == [t |-> "list", l |-> l]
Person(id, username, email) ==
    [id |-> id, username |-> username, email |-> email, color |-> Absent]

Task(status, date_closed, date_done, people, priority) ==
    [id |-> 0, status |-> status, date_closed |-> date_closed,
     date_done |-> date_done, assignees |-> people, priority |-> priority]

\* the tasks of a list have distinct ids: the task at position i has id i
WithIds(seq) == [i \in DOMAIN seq |-> [seq[i] EXCEPT !.id = i]]
Collections(bodies, n) == {WithIds(seq) : seq \in UNION {[1..k -> bodies] : k \in 0..n}}
Singles(bodies) == {WithIds(<<b>>) : b \in bodies}

s_InProgress == <<"I","n"," ","P","r","o","g","r","e","s","s">>
s_ToDo == <<"T","o"," ","D","o">>
s_Reactivated == <<"R","e","a","c","t","i","v","a","t","e","d">>
s_Closed == <<"C","l","o","s","e","d">>
s_today0 == <<"1","6","7","8","8","3","8","4","0","0","0","0","0">>
s_today_end == <<"1","6","7","8","9","2","4","7","9","9","9","9","9">>
s_tomorrow0 == <<"1","6","7","8","9","2","4","8","0","0","0","0","0">>
s_yesterday == <<"y","e","s","t","e","r","d","a","y">>
s_urgent == <<"u","r","g","e","n","t">>

StatusDone == StatusDict(Str(<<"D","o","n","e">>), Str(s_done))
StatusOpen == StatusDict(Str(s_ToDo), Str(s_open))
StampIn == Str(s_today0)
PlainTask == Task(StatusOpen, Null, Null, NoAssignees, Raw(Null))

\* status vocabulary of the classifier: names and types alone and combined
ClassifyStatuses ==
    {NoStatus,
     StatusDict(Str(s_InProgress), Absent),
     StatusDict(Str(s_InProgress), Str(s_done)),
     StatusDict(Str(s_InProgress), Str(s_active)),
     StatusDict(Str(s_Reactivated), Absent),
     StatusDict(Str(s_Reactivated), Str(s_open)),
     StatusDict(Str(s_ToDo), Absent),
     StatusDict(Str(s_ToDo), Str(s_open)),
     StatusDict(Absent, Str(s_done)),
     StatusDict(Absent, Str(s_Closed)),
     StatusDict(Absent, Str(s_active)),
     StatusDict(Absent, Str(s_open))}
ClassifyBodies ==
    {Task(st, dc, Null, NoAssignees, Raw(Null)) :
        st \in ClassifyStatuses, dc \in {Null, StampIn}}

\* the five tasks of the aggregation scenario
Scenario5 ==
    WithIds(<<Task(StatusDict(Absent, Str(s_done)), Null, Null, NoAssignees, Raw(Null)),
              Task(StatusDict(Absent, Str(s_done)), Null, Null, NoAssignees, Raw(Null)),
              Task(StatusDict(Str(s_InProgress), Absent), StampIn, Null, NoAssignees,
                   Raw(Null)),
              Task(StatusDict(Str(s_ToDo), Absent), Null, Null, NoAssignees, Raw(Null)),
              Task(StatusDict(Absent, Str(s_open)), Null, Null, NoAssignees, Raw(Null))>>)

\* raw priority values: absent, integers, floats, strings, other shapes, and a
\* wrapping object with 'priority' and 'id' fields
ScalarPriorities ==
    {Absent, Null, NonEmptyList, Inf, NaN}
    \cup {Int32(n) : n \in 0..5} \cup {Big(-1, MsPerDay - 1)}
    \cup {Float10(f) : f \in {-5, 0, 10, 19, 40, 45}}
    \cup {Str(x) : x \in {<<>>, <<"1">>, <<" ","2"," ">>, <<"+","3">>, <<"4">>,
                          <<"1",".","0">>, <<"-","1">>, <<"7">>, s_urgent}}
FieldPriorities ==
    {Absent, Null, NonEmptyDict, Int32(0), Int32(1), Int32(4), Int32(9), Float10(0),
     Str(<<>>), Str(<<"2">>), Str(s_urgent)}
RawPriorities ==
    {Raw(v) : v \in ScalarPriorities}
    \cup {RawDict(p, i) : p \in FieldPriorities, i \in FieldPriorities}
\* the first and the last millisecond of a day, and their neighbours outside
DayEdges(day) ==
    {Big(day - 1, MsPerDay - 1), Big(day, 0), Big(day, MsPerDay - 1), Big(day + 1, 0)}
\* the same instants half a day later
NoonEdges(day) ==
    {Big(day, Noon - 1), Big(day, Noon), Big(day + 1, Noon - 1), Big(day + 1, Noon)}
\* the days on which some selectable period starts or ends
PeriodDays ==
    {Today - 90, Today - 30, Today - 7, Today - 1, Today,
     ReplaceDay1(Midnight(Today)).day,
     ReplaceDay1(Midnight(Today)).day - 1,
     ReplaceDay1(Midnight(ReplaceDay1(Midnight(Today)).day - 1)).day}
EdgeBodies ==
    {Task(StatusDone, dc, Null, NoAssignees, Raw(Null)) :
        dc \in UNION {DayEdges(day) \cup NoonEdges(day) : day \in PeriodDays}}

\* date_closed and date_done absent, empty, today and tomorrow, as numbers and
\* as strings
DatedBodies ==
    {Task(StatusDone, dc, dd, NoAssignees, Raw(Null)) :
        dc \in {Null, Str(<<>>), Big(Today, 0), Str(s_tomorrow0)},
        dd \in {Absent, Str(s_today0), Big(Today + 1, 0)}}

\* people: with and without profile fields, and one without an id
Ann == Person(Int32(11), Str(<<"a","n","n">>), Str(<<"a","@","x",".","i","o">>))
Bob == Person(Int32(12), Absent, Absent)
Cy == Person(Int32(13), Str(<<"c","y">>), Absent)
Nobody == Person(Absent, Str(<<"n","o","b","o","d","y">>), Absent)
\* a task names each of its assignees once
TeamAssignees ==
    {NoAssignees, Assignees(<<Ann>>), Assignees(<<Cy>>), Assignees(<<Ann, Bob>>),
     Assignees(<<Bob, Cy>>), Assignees(<<Nobody, Bob>>)}
\* to do, in progress, done today, closed today
TeamBodies ==
    {Task(StatusOpen, Null, Null, people, Raw(Null)) : people \in TeamAssignees}
    \cup {Task(StatusDict(Str(s_InProgress), Absent), Null, Null, people, Raw(Null)) :
            people \in TeamAssignees}
    \cup {Task(StatusDone, Null, StampIn, people, Raw(Null)) : people \in TeamAssignees}
    \cup {Task(StatusDone, StampIn, Null, people, Raw(Null)) : people \in TeamAssignees}

\* records with malformed fields
MalformedBodies ==
    {Task(st, dc, dd, people, pr) :
        st \in {StatusDone, NullStatus, StatusDict(Null, Str(s_done)),
                StatusDict(Str(s_ToDo), Null)},
        dc \in {Null, StampIn, Str(s_yesterday)},
        dd \in {Null, Str(s_yesterday)},
        people \in {NoAssignees, NullAssignees, Assignees(<<Bob>>)},
        pr \in {Raw(Null), Raw(Inf), Raw(Str(s_urgent)), RawDict(NonEmptyDict, Absent)}}

PriorityBodies ==
    {Task(StatusDone, StampIn, Null, NoAssignees, pr) : pr \in RawPriorities}

\* tasks done, in progress and open, with and without a date_closed and a
\* date_done of today or tomorrow
PeriodBodies ==
    {Task(st, dc, dd, NoAssignees, Raw(Null)) :
        st \in {StatusDone, StatusOpen, StatusDict(Str(s_InProgress), Absent)},
        dc \in {Null, StampIn, Str(s_tomorrow0)},
        dd \in {Null, StampIn}}

----------------------------------------------------------------------------
(* Specifications: the same run over different slices of the inputs        *)

Loaded == pc \in {"tab1", "tab2", "tab3", "tab4", "done"}

\* the status classifier: every status of the vocabulary, closed or not
NextClassify ==
    \/ Sidebar({"Custom Range"}, Nows, {Today})
    \/ LoadData(Collections(ClassifyBodies, MaxTasks) \cup {Scenario5})
    \/ Render
SpecClassify == Init /\ [][NextClassify]_vars

\* the priority normalizer: one task per raw priority value
NextPriority ==
    \/ Sidebar({"Custom Range"}, Nows, {Today})
    \/ LoadData(Singles(PriorityBodies))
    \/ Render
SpecPriority == Init /\ [][NextPriority]_vars

\* the reporting period: every quick select and custom range, one task closed
\* at an edge of a day
NextWindow ==
    \/ Sidebar(DateOptions, Nows, CustomDays)
    \/ LoadData(Singles(EdgeBodies))
    \/ Render
SpecWindow == Init /\ [][NextWindow]_vars

\* the date-window filter: collections of tasks closed and / or done
NextFilter ==
    \/ Sidebar({"Last 7 Days", "Custom Range"}, Nows, CustomDays)
    \/ LoadData(Collections(DatedBodies, MaxTasks))
    \/ Render
SpecFilter == Init /\ [][NextFilter]_vars

\* the team views: tasks assigned to up to three people, completed today or not
NextTeam ==
    \/ Sidebar({"Custom Range"}, Nows, {Today})
    \/ LoadData(Collections(TeamBodies, MaxTasks))
    \/ Render
SpecTeam == Init /\ [][NextTeam]_vars

\* one task with malformed or missing fields
NextMalformed ==
    \/ Sidebar({"Custom Range"}, Nows, {Today})
    \/ LoadData(Singles(MalformedBodies))
    \/ Render
SpecMalformed == Init /\ [][NextMalformed]_vars

\* the period completions against the buckets: tasks of every status, closed
\* and / or done in and out of the period
NextPeriod ==
    \/ Sidebar({"Custom Range"}, Nows, {Today})
    \/ LoadData(Collections(PeriodBodies, MaxTasks))
    \/ Render
SpecPeriod == Init /\ [][NextPeriod]_vars

----------------------------------------------------------------------------
(* C1, C2: the status classifier                                           *)

BucketsHolding(task) ==
    {c \in CategoryNames : \E k \in DOMAIN categories[c] : categories[c][k].id = task.id}
TimesHeld(task) ==
    Cardinality({<<c, k>> \in CategoryNames \X (1..Len(tasks)) :
                    k \in DOMAIN categories[c] /\ categories[c][k].id = task.id})

\* C1: once the list is loaded, categorize_tasks has returned and every task of
\* the collection is in exactly one of the four buckets, once, so the four
\* bucket sizes sum to the number of tasks.
C1_Partition ==
    /\ pc # "error"
    /\ Loaded =>
        /\ \A i \in DOMAIN tasks :
              Cardinality(BucketsHolding(tasks[i])) = 1 /\ TimesHeld(tasks[i]) = 1
        /\ Len(categories["to_do"]) + Len(categories["in_progress"])
             + Len(categories["completed"]) + Len(categories["closed"]) = Len(tasks)

\* a loaded collection whose tasks went to different buckets
C1_Witness ==
    /\ pc = "done"
    /\ Len(tasks) >= 2
    /\ Len(categories["closed"]) >= 1
    /\ Len(categories["to_do"]) >= 1

\* the rules of the classifier, read off the status as the API gave it
StatusText(task, key) ==
    IF task.status.t # "dict" THEN <<>>
    ELSE LET v == IF key = "name" THEN task.status.name ELSE task.status.type
         IN  IF v.t = "str" THEN Lower(v.s) ELSE <<>>
Rule1(task) == ~IsNone(task.date_closed) /\ task.date_closed # Str(<<>>)
Rule2(task) == StatusText(task, "type") \in {s_done, s_closed}
Rule3(task) == \/ Contains(s_progress, StatusText(task, "name"))
               \/ Contains(s_active, StatusText(task, "name"))
               \/ StatusText(task, "type") = s_active
FirstRule(task) ==
    IF Rule1(task) THEN "closed"
    ELSE IF Rule2(task) THEN "completed"
    ELSE IF Rule3(task) THEN "in_progress"
    ELSE "to_do"

\* C2: every task is in the bucket of the first rule that matches it, in the
\* order closed, completed, in_progress, to_do; a task with date_closed set is
\* closed whatever its status says, and the five-task scenario yields
\* completed 2, closed 1, in_progress 0, to_do 2.
C2_RuleOrder ==
    Loaded =>
      /\ \A i \in DOMAIN tasks : BucketsHolding(tasks[i]) = {FirstRule(tasks[i])}
      /\ \A i \in DOMAIN tasks :
            Rule1(tasks[i]) /\ Rule3(tasks[i]) =>
                BucketsHolding(tasks[i]) = {"closed"}
      /\ tasks = Scenario5 =>
            /\ Len(categories["completed"]) = 2
            /\ Len(categories["closed"]) = 1
            /\ Len(categories["in_progress"]) = 0
            /\ Len(categories["to_do"]) = 2

\* a closed task whose status is active or in progress has been categorized
C2_Witness ==
    /\ pc = "done"
    /\ \E i \in DOMAIN tasks :
         /\ Rule1(tasks[i])
         /\ StatusText(tasks[i], "type") = s_active
         /\ \E k \in DOMAIN categories["closed"] : categories["closed"][k].id = tasks[i].id

----------------------------------------------------------------------------
(* C3: the priority normalizer                                             *)

\* the level of a value: that of the integer it coerces to, none otherwise
LevelOf(v) ==
    IF IsNone(v) THEN "None"
    ELSE LET n == PyInt(v) IN
         IF n.exc = "" /\ n.d = 0 /\ n.m \in 1..4
         THEN CASE n.m = 1 -> "Urgent" [] n.m = 2 -> "High"
                [] n.m = 3 -> "Normal" [] OTHER -> "Low"
         ELSE "None"

\* the level the normalizer is to return: for a mapping that of its 'priority'
\* field, of its 'id' field only when 'priority' is absent
StatedLevel(priority) ==
    IF priority.v.t = "dict"
    THEN IF ~IsNone(priority.p) THEN LevelOf(priority.p) ELSE LevelOf(priority.i)
    ELSE LevelOf(priority.v)

CardsShown == pc \in {"tab3", "tab4", "done"}
     \/ (pc = "error" /\ exception.raised_by = "priority distribution")

\* C3: get_priority_display never raises, and the card of every task shows
\* none for an absent priority, the level of the 'priority' field of a mapping
\* (of its 'id' field only if 'priority' is absent), urgent / high / normal /
\* low for a value coercible to 1 / 2 / 3 / 4 and none for anything else.
C3_Normalizer ==
    /\ exception.raised_by # "get_priority_display"
    /\ CardsShown =>
         \A k \in DOMAIN cards : \A i \in DOMAIN tasks :
            cards[k].id = tasks[i].id =>
                cards[k].priority_display = StatedLevel(tasks[i].priority)

----------------------------------------------------------------------------
(* C8: the completion rate                                                 *)

AfterTab1 == pc \in {"tab2", "tab3", "tab4", "done"}

\* C8 as stated: the rate is (completed + closed) / total, and it is 0 for a
\* list without tasks.
C8_RateZeroWhenEmpty ==
    AfterTab1 =>
      /\ completion_rate.defined
      /\ Len(tasks) = 0 => completion_rate.num = 0
      /\ Len(tasks) > 0 =>
            /\ completion_rate.num
                 = Len(categories["completed"]) + Len(categories["closed"])
            /\ completion_rate.den = Len(tasks)

\* C8, amended: the rate of a list with tasks is (completed + closed) / total,
\* which is 1 for a single closed task; for a list without tasks no rate is
\* computed.
C8_Rate ==
    AfterTab1 =>
      /\ completion_rate.defined <=> Len(tasks) > 0
      /\ Len(tasks) > 0 =>
            /\ completion_rate.num
                 = Cardinality({i \in DOMAIN tasks :
                                  FirstRule(tasks[i]) \in {"completed", "closed"}})
            /\ completion_rate.den = Len(tasks)
      /\ (Len(tasks) = 1 /\ Len(categories["closed"]) = 1) =>
            completion_rate.num = completion_rate.den

\* the rate of a list of one closed and one open task has been computed
C8_Witness ==
    /\ pc = "done"
    /\ Len(tasks) = 2
    /\ Len(categories["closed"]) = 1
    /\ Len(categories["to_do"]) = 1
    /\ completion_rate = [defined |-> TRUE, num |-> 1, den |-> 2]

----------------------------------------------------------------------------
(* C4, C5: the date-window filter                                          *)

StartOfDay(dt) == [d |-> dt.day, m |-> 0]
EndOfDay(dt) == [d |-> dt.day, m |-> MsPerDay - 1]
InPeriod(task) ==
    \E k \in DOMAIN completed_in_period : completed_in_period[k].id = task.id

\* C4: whatever period the sidebar selected, a task with date_closed is counted
\* as completed in the period exactly if date_closed lies between the first
\* millisecond of the start day and the last millisecond of the end day.
C4_DayWindow ==
    Loaded =>
      \A i \in DOMAIN tasks :
         tasks[i].date_closed.t = "int" =>
            (InPeriod(tasks[i]) <=>
                InRange(StartOfDay(start_date),
                        [d |-> tasks[i].date_closed.d, m |-> tasks[i].date_closed.m],
                        EndOfDay(end_date)))

\* the field the filter is to consult: the first of date_closed, date_done that
\* is present
Present(v) == ~IsNone(v) /\ v # Str(<<>>)
StampOf(v) == LET n == PyInt(v) IN [d |-> n.d, m |-> n.m]
InWindow(v) ==
    Present(v) /\ InRange(start_timestamp(start_date), StampOf(v), end_timestamp(end_date))
Qualifies(task) ==
    IF Present(task.date_closed) THEN InWindow(task.date_closed)
    ELSE InWindow(task.date_done)

\* C5: the filter returns the tasks whose first present field of date_closed,
\* date_done lies in the range, each once and in input order; date_done is not
\* consulted when date_closed is present, and a task with neither is excluded.
C5_Subsequence ==
    /\ exception.raised_by # "filter_tasks_by_date"
    /\ Loaded =>
        /\ completed_in_period = SelectSeq(tasks, Qualifies)
        /\ \A j, k \in DOMAIN completed_in_period :
              j < k => completed_in_period[j].id < completed_in_period[k].id
        /\ \A i \in DOMAIN tasks :
              /\ (Present(tasks[i].date_closed) /\ ~InWindow(tasks[i].date_closed))
                    => ~InPeriod(tasks[i])
              /\ (~Present(tasks[i].date_closed) /\ ~Present(tasks[i].date_done))
                    => ~InPeriod(tasks[i])

\* two tasks loaded: one with date_closed out of range and date_done in range,
\* which is left out, and after it one with only date_done, which is kept
C5_Witness ==
    /\ pc = "done"
    /\ Len(tasks) >= 2
    /\ Present(tasks[1].date_closed) /\ ~InWindow(tasks[1].date_closed)
    /\ InWindow(tasks[1].date_done)
    /\ ~Present(tasks[2].date_closed) /\ InWindow(tasks[2].date_done)
    /\ Len(completed_in_period) = 1 /\ completed_in_period[1].id = 2

----------------------------------------------------------------------------
(* C6: the assignee index                                                  *)

\* the person ids the tasks name
NamedIds(ts) ==
    {AssigneeList(ts[i])[k].id : <<i, k>> \in
        {<<i, k>> \in (DOMAIN ts) \X (1..3) : k \in DOMAIN AssigneeList(ts[i])}}
    \ {Absent, Null}
Names(task, user_id) ==
    \E k \in DOMAIN AssigneeList(task) : AssigneeList(task)[k].id = user_id
\* how often the task is in the list of the entry
TimesListed(entry, task) ==
    Cardinality({j \in DOMAIN entry.tasks : entry.tasks[j].id = task.id})
EntryOf(index, user_id) == index[CHOOSE k \in DOMAIN index : index[k].user_id = user_id]
Keys(index) == {index[k].user_id : k \in DOMAIN index}
Permuted(ts, f) == [i \in DOMAIN ts |-> ts[f[i]]]

\* C6: the index has one entry per person id the tasks name; the entry lists
\* every task naming the person once and no other task, so a task with several
\* assignees is under each of them and one without assignees under nobody; the
\* tasks listed per person are the same in whatever order the tasks are given.
C6_FanOut ==
    /\ exception.raised_by # "get_task_assignees"
    /\ Loaded =>
        /\ Keys(assignees) = NamedIds(tasks)
        /\ \A j, k \in DOMAIN assignees :
              assignees[j].user_id = assignees[k].user_id => j = k
        /\ \A k \in DOMAIN assignees : \A i \in DOMAIN tasks :
              /\ TimesListed(assignees[k], tasks[i])
                    = IF Names(tasks[i], assignees[k].user_id) THEN 1 ELSE 0
              /\ Len(assignees[k].tasks)
                    = Cardinality({n \in DOMAIN tasks :
                                     Names(tasks[n], assignees[k].user_id)})
        /\ \A f \in Permutations(DOMAIN tasks) :
              LET other == get_task_assignees(Permuted(tasks, f)).val IN
              /\ Keys(other) = Keys(assignees)
              /\ \A k \in DOMAIN assignees : \A i \in DOMAIN tasks :
                    TimesListed(EntryOf(other, assignees[k].user_id), tasks[i])
                      = TimesListed(assignees[k], tasks[i])

\* a task with two assignees is under both, next to a task without assignees
C6_Witness ==
    /\ pc = "done"
    /\ Len(tasks) = 2
    /\ Len(AssigneeList(tasks[1])) = 0
    /\ Len(AssigneeList(tasks[2])) = 2
    /\ Len(assignees) = 2
    /\ \A k \in DOMAIN assignees :
          Len(assignees[k].tasks) = 1 /\ assignees[k].tasks[1].id = 2

----------------------------------------------------------------------------
(* C7: totality                                                            *)

\* C7: categorize_tasks, get_priority_display, get_task_assignees and
\* filter_tasks_by_date return for every task record, whatever field is
\* malformed or missing: none of them ends the run with an exception.
C7_NeverRaises ==
    exception.raised_by \notin {"categorize_tasks", "get_priority_display",
                                "get_task_assignees", "filter_tasks_by_date"}

----------------------------------------------------------------------------
(* C9, C10: the team views                                                 *)

CompletedIds == {completed_in_period[k].id : k \in DOMAIN completed_in_period}
\* the tasks of the member's list that are in the filtered set, by task id
PeriodCount(entry) ==
    Cardinality({j \in DOMAIN entry.tasks : entry.tasks[j].id \in CompletedIds})
CountIn(entry, cats) ==
    Cardinality({j \in DOMAIN entry.tasks : FirstRule(entry.tasks[j]) \in cats})

\* C9: for every entry of the assignee index, the period-completion count of
\* the team views is the number of tasks of the member's list that are in the
\* date-window-filtered set, and the member's category counts are those of the
\* member's own task list.
C9_MemberRollup ==
    /\ pc \in {"tab4", "done"} =>
        /\ Len(members_with_completion) = Len(assignees)
        /\ \A k \in DOMAIN members_with_completion :
              members_with_completion[k].count
                = PeriodCount(EntryOf(assignees, members_with_completion[k].user_id))
    /\ pc \in {"tab4", "done"} =>
        /\ Len(member_analytics) = Len(assignees)
        /\ \A k \in DOMAIN member_analytics :
              LET entry == EntryOf(assignees, member_analytics[k].user_id) IN
              /\ member_analytics[k].completed_in_period = PeriodCount(entry)
              /\ member_analytics[k].total = Len(entry.tasks)
              /\ member_analytics[k].to_do = CountIn(entry, {"to_do"})
              /\ member_analytics[k].in_progress = CountIn(entry, {"in_progress"})
              /\ member_analytics[k].completed_all
                    = CountIn(entry, {"completed", "closed"})
    /\ pc = "done" =>
        /\ Len(workload_data) = Len(assignees)
        /\ \A k \in DOMAIN workload_data :
              /\ workload_data[k].user_id = assignees[k].user_id
              /\ workload_data[k].completed_period = PeriodCount(assignees[k])
              /\ workload_data[k].total = Len(assignees[k].tasks)
              /\ workload_data[k].to_do = CountIn(assignees[k], {"to_do"})
              /\ workload_data[k].in_progress = CountIn(assignees[k], {"in_progress"})
              /\ workload_data[k].completed_overall
                    = CountIn(assignees[k], {"completed", "closed"})

\* a member with two tasks, one of them completed in the period
C9_Witness ==
    /\ pc = "done"
    /\ \E k \in DOMAIN workload_data :
          /\ workload_data[k].total = 2
          /\ workload_data[k].completed_period = 1
          /\ workload_data[k].to_do = 1
    /\ Len(completed_in_period) = 1

IndexPosition(user_id) == CHOOSE k \in DOMAIN assignees : assignees[k].user_id = user_id

\* C10: the ranked member list holds every member once, by period-completion
\* count descending, members of equal count in the order of their first
\* appearance in the assignee index.
C10_StableRanking ==
    pc \in {"tab4", "done"} =>
      /\ {members_with_completion[k].user_id : k \in DOMAIN members_with_completion}
            = Keys(assignees)
      /\ Len(members_with_completion) = Len(assignees)
      /\ \A a, b \in DOMAIN members_with_completion :
            a < b =>
              /\ members_with_completion[a].count >= members_with_completion[b].count
              /\ members_with_completion[a].count = members_with_completion[b].count
                    => IndexPosition(members_with_completion[a].user_id)
                         < IndexPosition(members_with_completion[b].user_id)

\* three members: the last of the index ranks first, the two others tie and
\* keep their order
C10_Witness ==
    /\ pc = "done"
    /\ Len(assignees) = 3
    /\ members_with_completion[1].user_id = assignees[3].user_id
    /\ members_with_completion[2].user_id = assignees[1].user_id
    /\ members_with_completion[3].user_id = assignees[2].user_id
    /\ members_with_completion[2].count = members_with_completion[3].count
    /\ members_with_completion[1].count > members_with_completion[2].count

----------------------------------------------------------------------------
(* C11: the period completions and the buckets                             *)

\* C11: every task of completed_in_period is in the closed or the completed
\* bucket of the same list, so the number of tasks completed in the period
\* never exceeds completed + closed.
C11_PeriodWithinDone ==
    Loaded =>
      /\ \A k \in DOMAIN completed_in_period :
            BucketsHolding(completed_in_period[k]) \subseteq {"completed", "closed"}
      /\ Len(completed_in_period)
            <= Len(categories["completed"]) + Len(categories["closed"])

----------------------------------------------------------------------------
(* C12: the priority distribution and the cards                            *)

\* the tasks whose card shows the level, and the count of the level in the chart
CardsAt(level) == Cardinality({k \in DOMAIN cards : cards[k].priority_display = level})
ChartCount(level) ==
    IF \E k \in DOMAIN priority_count : priority_count[k].name = level
    THEN priority_count[CHOOSE k \in DOMAIN priority_count :
                           priority_count[k].name = level].count
    ELSE 0

\* C12: the Priority Distribution chart counts every task under the level
\* that get_priority_display shows on the card of the task: once the cards of
\* all tasks and the chart are rendered, the chart counts under each level as
\* many tasks as there are cards showing it.
C12_ChartAgreesWithCards ==
    pc = "done" =>
      /\ Len(cards) = Len(tasks)
      /\ \A level \in {"Urgent", "High", "Normal", "Low", "None"} :
            ChartCount(level) = CardsAt(level)

====
